---- MODULE Spec2Model ----
(***************************************************************************)
(* Croche-Mahek-Backend: the authentication routes (routes/auth.js), the   *)
(* access guard and the in-memory rate limiter (middleware/auth.js) and    *)
(* the admin-gated catalog routes (routes/routes.js, routes/upload.js).    *)
(*                                                                         *)
(* Every route handler is one action.  Node runs a synchronous callback    *)
(* to completion; the handlers below are modelled as one step each.        *)
(* The variable last holds the request the program handled last and the    *)
(* response it gave.                                                       *)
(***************************************************************************)
EXTENDS Integers, Sequences, FiniteSets, TLC

VARIABLES
    users,           \* the User collection: id -> document
    nextId,          \* the next fresh _id (ObjectIds are never reused)
    roleOf,          \* the role each allocated _id was created with
    now,             \* Date.now(), in ticks of the JWT clock
    last,            \* the last request and its response
    loggedOut,       \* history: the refresh tokens a logout removed from a list
    rateLimitStore,  \* middleware/auth.js: const rateLimitStore = new Map()
    admitted,        \* history: requests each limiter let through in the record's window
    categories,      \* the Category collection: id -> document
    products,        \* the Product collection: id -> document
    media,           \* the public_ids stored at the media host
    inFlight         \* requests between two awaits of their handler

authVars == <<users, nextId, roleOf, loggedOut>>
rlVars == <<rateLimitStore, admitted>>
catVars == <<categories, products, media>>
vars == <<users, nextId, roleOf, now, last, loggedOut, rateLimitStore, admitted,
          categories, products, media, inFlight>>

----------------------------------------------------------------------------
(* Bounds of the model *)

MaxUsers == 2        \* documents ever created
MaxTime == 2         \* the clock stops here
MaxTokens == 2       \* entries a refreshTokens array may hold
MaxAttempts == 3     \* cap of the loginAttempts counter

(* Token lifetimes in clock ticks ('1d' and '7d' in the source, scaled) *)
AccessTTL == 1
RefreshTTL == 2

(* models/userModel.js is not part of the sources: the lock threshold and *)
(* the lock duration are the "N" and "N minutes" of the specification     *)
LockThreshold == 2
LockTime == 1

----------------------------------------------------------------------------
(* Request values *)

Missing == ""        \* undefined or '' : falsy in the handlers' !x tests

Usernames == {"alice", "bob"}
Emails == {"a@x.io", "b@x.io"}

AdminSecret == "ADMIN_SECRET_TOKEN"      \* process.env.ADMIN_SECRET_TOKEN
AdminTokenInputs == {Missing, AdminSecret, "guess"}

RoleInputs == {Missing, "user", "admin", "moderator"}

(* Passwords are sequences of characters *)
LowerChars == {"a","b","c","d","e","f","g","h","i","j","k","l","m",
               "n","o","p","q","r","s","t","u","v","w","x","y","z"}
UpperChars == {"A","B","C","D","E","F","G","H","I","J","K","L","M",
               "N","O","P","Q","R","S","T","U","V","W","X","Y","Z"}
DigitChars == {"0","1","2","3","4","5","6","7","8","9"}
SymbolChars == {"@","$","!","%","*","?","&"}

NoPassword == << >>
PwShort == <<"a","b","c","1">>
PwUser == <<"p","a","s","s","w","o","r","d">>
PwStrong == <<"A","d","m","i","n","P","a","s","s","1","2","!">>

PasswordInputs == {NoPassword, PwShort, PwUser, PwStrong}

(* passwords at the length limits, and of 12 characters and more that     *)
(* lack one class or hold a character outside the four classes            *)
Pw7 == <<"p","a","s","s","w","o","r">>
Pw11 == <<"A","d","m","i","n","P","a","s","1","2","!">>
PwNoLower == <<"A","D","M","I","N","P","A","S","S","1","2","!">>
PwNoUpper == <<"a","d","m","i","n","p","a","s","s","1","2","!">>
PwNoDigit == <<"A","d","m","i","n","P","a","s","s","w","d","!">>
PwNoSymbol == <<"A","d","m","i","n","P","a","s","s","1","2","3">>
PwForeign == <<"A","d","m","i","n","P","a","s","s","1","2","!","#">>

HasChar(p, S) == \E i \in 1..Len(p) : p[i] \in S

(* /^(?=.*[a-z])(?=.*[A-Z])(?=.*\d)(?=.*[@$!%*?&])[A-Za-z\d@$!%*?&]{12,}$/ *)
strongPasswordRegex(p) ==
    /\ HasChar(p, LowerChars)
    /\ HasChar(p, UpperChars)
    /\ HasChar(p, DigitChars)
    /\ HasChar(p, SymbolChars)
    /\ \A i \in 1..Len(p) :
          p[i] \in LowerChars \cup UpperChars \cup DigitChars \cup SymbolChars
    /\ Len(p) >= 12
    /\ Len(p) >= 12
    /\ \A i \in 1..Len(p) :
          p[i] \in LowerChars \cup UpperChars \cup DigitChars \cup SymbolChars

----------------------------------------------------------------------------
(* Tokens.  jwt.sign is deterministic: the string is a function of the   *)
(* payload, iat (the clock), exp and the signing secret.                 *)

NoToken == [sig |-> "absent", id |-> 0, role |-> "none", iat |-> 0, exp |-> 0]
Malformed == [sig |-> "malformed", id |-> 0, role |-> "none", iat |-> 0, exp |-> 0]

generateAccessToken(userId, role, t) ==
    [sig |-> "JWT_SECRET", id |-> userId, role |-> role, iat |-> t, exp |-> t + AccessTTL]

generateRefreshToken(userId, t) ==
    [sig |-> "JWT_REFRESH_SECRET", id |-> userId, role |-> "none", iat |-> t,
     exp |-> t + RefreshTTL]

(* a token signed with a key the server does not hold *)
ForgedToken(userId, exp) ==
    [sig |-> "other", id |-> userId, role |-> "admin", iat |-> 0, exp |-> exp]

(* jwt.verify(token, secret): the signature is checked before the expiry *)
jwtVerify(tok, secret, t) ==
    IF tok.sig = "malformed" THEN "JsonWebTokenError"
    ELSE IF tok.sig # secret THEN "JsonWebTokenError"
    ELSE IF t >= tok.exp THEN "TokenExpiredError"
    ELSE "ok"

----------------------------------------------------------------------------
(* models/userModel.js (not among the sources; from the specification) *)

Hash(p) == <<"bcrypt">> \o p

NewUser(username, email, password, role) ==
    [username |-> username, email |-> email, password |-> Hash(password),
     role |-> role, isActive |-> TRUE, loginAttempts |-> 0, lockUntil |-> 0,
     refreshTokens |-> << >>]

(* lockUntil 0 stands for "no lock" *)
isLocked(user, t) == user.lockUntil # 0 /\ user.lockUntil > t

matchPassword(user, p) == user.password = Hash(p)

incrementLoginAttempts(user, t) ==
    LET n == user.loginAttempts + 1
    IN  [user EXCEPT !.loginAttempts = n,
                     !.lockUntil = IF n >= LockThreshold THEN t + LockTime ELSE @]

resetLoginAttempts(user) ==
    [user EXCEPT !.loginAttempts = 0, !.lockUntil = 0]

----------------------------------------------------------------------------
(* Responses *)

NoUser == [id |-> 0, role |-> "none"]

NoData == [id |-> 0, username |-> "", email |-> "", role |-> "none"]

(* res.status(status).json({ success, message, ... }); ran: the route's own *)
(* handler was entered; pwCompared: matchPassword was called               *)
Res(status, message) ==
    [status |-> status, message |-> message, code |-> "",
     accessToken |-> NoToken, refreshToken |-> NoToken, data |-> NoData,
     reqUser |-> NoUser, ran |-> FALSE, pwCompared |-> FALSE]

Stored == DOMAIN users

(* User.findOne({ email }) *)
FindByEmail(us, email) == {i \in DOMAIN us : us[i].email = email}

(* User.findOne({ $or: [{ email }, { username }] }) *)
FindExisting(us, username, email) ==
    {i \in DOMAIN us : us[i].email = email \/ us[i].username = username}

----------------------------------------------------------------------------
(* middleware/auth.js: protect and adminOnly *)

(* mutant: the catch block answers every verification error alike *)
protectCatch_Generic(errorName) == Res(401, "Not authorized, invalid token")

(* the catch block of protect *)
protectCatch(errorName) ==
    IF errorName = "TokenExpiredError"
    THEN [Res(401, "Token expired") EXCEPT !.code = "TOKEN_EXPIRED"]
    ELSE Res(401, "Not authorized, invalid token")

(* if (!user || !user.isActive) *)
UserGone(us, id) == id \notin DOMAIN us \/ ~us[id].isActive

(* status 0: no response was sent, next() was called with req.user set *)
protect(us, t, tok) ==
    IF tok.sig = "absent"
    THEN Res(401, "Not authorized, no token provided")
    ELSE LET v == jwtVerify(tok, "JWT_SECRET", t)
         IN  IF v # "ok" THEN protectCatch(v)
             ELSE IF UserGone(us, tok.id)
             THEN Res(401, "User not found or inactive")
             ELSE [Res(0, "next") EXCEPT !.reqUser = [id |-> tok.id, role |-> tok.role]]

(* mutant: adminOnly lets every authenticated caller through *)
IsAdminRole_Any(reqUser) == TRUE

(* req.user?.role === 'admin' *)
IsAdminRole(reqUser) == reqUser.role = "admin"

adminOnly(guard) ==
    IF IsAdminRole(guard.reqUser) THEN guard
    ELSE [Res(403, "Access denied: admin privileges required")
            EXCEPT !.reqUser = guard.reqUser]

----------------------------------------------------------------------------
(* routes/auth.js: the handlers as functions of the collection and the clock *)

Out(us, res) == [users |-> us, res |-> res]

(* mutant: the admin-role test of /register is gone *)
AdminRoleRequested_Never(role) == FALSE

(* if (role === 'admin') *)
AdminRoleRequested(role) == role = "admin"

(* mutant: the limit is one character lower *)
TooShort_ByOne(password, n) == Len(password) < n - 1

(* if (password.length < 8), if (password.length < 12) *)
TooShort(password, n) == Len(password) < n

(* mutant: /register stores the role of the request body *)
SelfRegisteredRole_FromBody(role) == IF role = Missing THEN "user" ELSE role

(* new User({ username, email, password, role: 'user' }) *)
SelfRegisteredRole(role) == "user"

register(us, id, username, email, password, role) ==
    IF AdminRoleRequested(role)
    THEN Out(us, Res(403, "Admin registration not allowed through this endpoint"))
    ELSE IF username = Missing \/ email = Missing \/ password = NoPassword
    THEN Out(us, Res(400, "Please provide username, email, and password"))
    ELSE IF TooShort(password, 8)
    THEN Out(us, Res(400, "Password must be at least 8 characters long"))
    ELSE IF FindExisting(us, username, email) # {}
    THEN Out(us, Res(400, "Username or email already in use"))
    ELSE Out(us @@ (id :> NewUser(username, email, password, SelfRegisteredRole(role))),
             [Res(201, "User registered successfully") EXCEPT !.ran = TRUE])

(* if (!adminToken || adminToken !== process.env.ADMIN_SECRET_TOKEN) *)
AdminTokenRejected(adminToken) == adminToken = Missing \/ adminToken # AdminSecret

registerAdmin(us, id, username, email, password, adminToken) ==
    IF AdminTokenRejected(adminToken)
    THEN Out(us, Res(403, "Invalid admin token. Admin registration denied."))
    ELSE IF username = Missing \/ email = Missing \/ password = NoPassword
    THEN Out(us, Res(400, "Please provide username, email, and password"))
    ELSE IF TooShort(password, 12)
    THEN Out(us, Res(400, "Admin password must be at least 12 characters long"))
    ELSE IF ~strongPasswordRegex(password)
    THEN Out(us, Res(400, "Admin password must contain uppercase, lowercase, number, and special character"))
    ELSE IF FindExisting(us, username, email) # {}
    THEN Out(us, Res(400, "Username or email already in use"))
    ELSE Out(us @@ (id :> NewUser(username, email, password, "admin")),
             [Res(201, "Admin registered successfully")
                EXCEPT !.ran = TRUE,
                       !.data = [id |-> id, username |-> username, email |-> email,
                                 role |-> "none"]])

(* mutant: the new session replaces the list *)
PushToken_Replace(list, tok) == <<tok>>

(* user.refreshTokens.push({ token: refreshToken }) *)
PushToken(list, tok) == Append(list, tok)

(* mutant: /login does not look at the lock *)
LockCheck_Off(user, t) == FALSE

(* if (user.isLocked) *)
LockCheck(user, t) == isLocked(user, t)

(* mutant: any admin token that is present passes the step-up *)
AdminStepUpFails_OnlyMissing(user, adminToken) ==
    user.role = "admin" /\ adminToken = Missing

(* if (user.role === 'admin') { if (!adminToken || adminToken !== ...) *)
AdminStepUpFails(user, adminToken) ==
    user.role = "admin" /\ AdminTokenRejected(adminToken)

login(us, t, email, password, adminToken) ==
    IF email = Missing \/ password = NoPassword
    THEN Out(us, Res(400, "Please provide email and password"))
    ELSE LET found == FindByEmail(us, email)
         IN  IF found = {}
             THEN Out(us, Res(401, "Invalid credentials"))
             ELSE LET id == CHOOSE i \in found : TRUE
                      user == us[id]
                  IN  IF AdminStepUpFails(user, adminToken)
                      THEN Out([us EXCEPT ![id] = incrementLoginAttempts(user, t)],
                               Res(403, "Admin token required for admin login"))
                      ELSE IF LockCheck(user, t)
                      THEN Out(us, Res(423, "Account locked due to too many failed login attempts. Try again later."))
                      ELSE IF ~matchPassword(user, password)
                      THEN Out([us EXCEPT ![id] = incrementLoginAttempts(user, t)],
                               [Res(401, "Invalid credentials") EXCEPT !.pwCompared = TRUE])
                      ELSE LET accessToken == generateAccessToken(id, user.role, t)
                               refreshToken == generateRefreshToken(id, t)
                               reset == resetLoginAttempts(user)
                           IN  Out([us EXCEPT ![id] =
                                      [reset EXCEPT !.refreshTokens =
                                                      PushToken(@, refreshToken)]],
                                   [Res(200, "ok")
                                      EXCEPT !.ran = TRUE, !.pwCompared = TRUE,
                                             !.accessToken = accessToken,
                                             !.refreshToken = refreshToken,
                                             !.data = [id |-> id,
                                                       username |-> user.username,
                                                       email |-> user.email,
                                                       role |-> user.role]])

(* mutant: { $pull } that takes the last entry when nothing matches *)
Pull_OrLast(list, tok) ==
    IF \E i \in 1..Len(list) : list[i] = tok
    THEN SelectSeq(list, LAMBDA e : e # tok)
    ELSE SubSeq(list, 1, Len(list) - 1)

(* mutant: /refresh rotates: it takes the presented token off the list, *)
(* signs a new one, stores and returns it                                *)
refresh_Rotating(us, t, tok) ==
    IF /\ jwtVerify(tok, "JWT_REFRESH_SECRET", t) = "ok"
       /\ ~UserGone(us, tok.id)
       /\ \E i \in 1..Len(us[tok.id].refreshTokens) : us[tok.id].refreshTokens[i] = tok
    THEN Out([us EXCEPT ![tok.id].refreshTokens =
                  Append(SelectSeq(@, LAMBDA e : e # tok),
                         generateRefreshToken(tok.id, t))],
             [Res(200, "ok")
                EXCEPT !.ran = TRUE,
                       !.accessToken = generateAccessToken(tok.id, us[tok.id].role, t),
                       !.refreshToken = generateRefreshToken(tok.id, t)])
    ELSE Out(us, Res(401, "Invalid refresh token"))

(* mutant: /refresh does not look at the list *)
tokenExists_Always(user, tok) == TRUE

(* user.refreshTokens.some(t => t.token === refreshToken) *)
tokenExists(user, tok) ==
    \E i \in 1..Len(user.refreshTokens) : user.refreshTokens[i] = tok

refresh(us, t, tok) ==
    IF tok.sig = "absent"
    THEN Out(us, Res(400, "Refresh token required"))
    ELSE IF jwtVerify(tok, "JWT_REFRESH_SECRET", t) # "ok"
    THEN Out(us, Res(401, "Invalid or expired refresh token"))
    ELSE IF UserGone(us, tok.id)
    THEN Out(us, Res(401, "Invalid refresh token"))
    ELSE IF ~tokenExists(us[tok.id], tok)
    THEN Out(us, Res(401, "Invalid refresh token"))
    ELSE Out(us, [Res(200, "ok")
                    EXCEPT !.ran = TRUE,
                           !.accessToken = generateAccessToken(tok.id, us[tok.id].role, t)])

(* { $pull: { refreshTokens: { token: refreshToken } } } *)
Pull(list, tok) == SelectSeq(list, LAMBDA e : e # tok)

(* mutant: the list of the user the refresh token names is updated *)
PullTarget_TokenOwner(reqUser, tok) ==
    IF tok.sig = "JWT_REFRESH_SECRET" THEN tok.id ELSE reqUser.id

(* User.findByIdAndUpdate(req.user.id, ...) *)
PullTarget(reqUser, tok) == reqUser.id

logout(us, t, bearer, tok) ==
    LET guard == protect(us, t, bearer)
    IN  IF guard.status # 0 THEN Out(us, guard)
        ELSE LET id == PullTarget(guard.reqUser, tok)
                 after == IF tok.sig # "absent"
                          THEN [us EXCEPT ![id].refreshTokens = Pull(@, tok)]
                          ELSE us
             IN  Out(after, [Res(200, "Logged out successfully")
                               EXCEPT !.ran = TRUE, !.reqUser = guard.reqUser])

me(us, t, bearer) ==
    LET guard == protect(us, t, bearer)
    IN  IF guard.status # 0 THEN Out(us, guard)
        ELSE LET id == guard.reqUser.id
             IN  Out(us, [Res(200, "ok")
                            EXCEPT !.ran = TRUE, !.reqUser = guard.reqUser,
                                   !.data = [id |-> id, username |-> us[id].username,
                                             email |-> us[id].email,
                                             role |-> us[id].role]])

----------------------------------------------------------------------------
(* Requests.  A client presents a token the server signed for an _id it  *)
(* allocated, with the role that _id was created with, or a string the   *)
(* server never signed.                                                   *)

Allocated == DOMAIN roleOf

ForgedInputs == {ForgedToken(1, 0), ForgedToken(1, MaxTime + 1)}

(* access tokens signed now or one lifetime ago *)
AccessTokens ==
    {generateAccessToken(i, roleOf[i], t) :
        i \in Allocated, t \in {now, now - AccessTTL} \cap (0..now)}

RefreshTokens == {generateRefreshToken(i, t) : i \in Allocated, t \in 0..now}

BearerInputs == {NoToken, Malformed} \cup ForgedInputs \cup AccessTokens
                  \cup {generateRefreshToken(i, now) : i \in Allocated}

RefreshInputs == {NoToken, Malformed} \cup ForgedInputs \cup RefreshTokens
                   \cup {generateAccessToken(i, roleOf[i], now) : i \in Allocated}

LogoutInputs ==
    {[bearer |-> b, refreshToken |-> NoToken] : b \in BearerInputs}
      \cup {[bearer |-> generateAccessToken(i, roleOf[i], now), refreshToken |-> tok] :
               i \in Allocated, tok \in RefreshInputs}

RegisterInputs(U, E, P, R) ==
    {[username |-> u, email |-> e, password |-> p, role |-> r] :
        u \in U, e \in E, p \in P, r \in R}

RegisterAdminInputs(U, E, P, A) ==
    {[username |-> u, email |-> e, password |-> p, adminToken |-> a] :
        u \in U, e \in E, p \in P, a \in A}

LoginInputs(E, P, A) ==
    {[email |-> e, password |-> p, adminToken |-> a] : e \in E, p \in P, a \in A}

(* the bounds: a counter and an array stay within MaxAttempts and MaxTokens *)
WithinBounds(us) ==
    \A i \in DOMAIN us : /\ us[i].loginAttempts <= MaxAttempts
                         /\ Len(us[i].refreshTokens) <= MaxTokens

Apply(op, req, o) ==
    /\ WithinBounds(o.users)
    /\ DOMAIN o.users # DOMAIN users => nextId <= MaxUsers
    /\ users' = o.users
    /\ nextId' = IF DOMAIN o.users # DOMAIN users THEN nextId + 1 ELSE nextId
    /\ roleOf' = IF DOMAIN o.users # DOMAIN users
                 THEN roleOf @@ (nextId :> o.users[nextId].role)
                 ELSE roleOf
    /\ last' = [op |-> op, req |-> req, res |-> o.res]
    /\ UNCHANGED <<now, rlVars, catVars, inFlight>>

Register(Inputs) ==
    \E req \in Inputs :
        /\ Apply("register", req,
                 register(users, nextId, req.username, req.email, req.password, req.role))
        /\ UNCHANGED loggedOut

RegisterAdmin(Inputs) ==
    \E req \in Inputs :
        /\ Apply("register-admin", req,
                 registerAdmin(users, nextId, req.username, req.email, req.password,
                               req.adminToken))
        /\ UNCHANGED loggedOut

Login(Inputs) ==
    \E req \in Inputs :
        /\ Apply("login", req, login(users, now, req.email, req.password, req.adminToken))
        /\ UNCHANGED loggedOut

Refresh ==
    \E tok \in RefreshInputs :
        /\ Apply("refresh", [refreshToken |-> tok], refresh(users, now, tok))
        /\ UNCHANGED loggedOut

Logout ==
    \E req \in LogoutInputs :
        /\ Apply("logout", req, logout(users, now, req.bearer, req.refreshToken))
        /\ UNCHANGED loggedOut

(* Logout, with the history of the tokens it removed from the caller's list *)
LogoutRecorded ==
    \E req \in LogoutInputs :
        LET o == logout(users, now, req.bearer, req.refreshToken)
        IN  /\ Apply("logout", req, o)
            /\ loggedOut' =
                  IF o.res.ran /\ tokenExists(users[o.res.reqUser.id], req.refreshToken)
                  THEN loggedOut \cup {req.refreshToken}
                  ELSE loggedOut

Me ==
    \E bearer \in BearerInputs :
        /\ Apply("me", [bearer |-> bearer], me(users, now, bearer))
        /\ UNCHANGED loggedOut

(* outside the routes: an operator of the database clears isActive or *)
(* removes a document                                                  *)
Deactivate ==
    \E i \in Stored :
        /\ users[i].isActive
        /\ users' = [users EXCEPT ![i].isActive = FALSE]
        /\ last' = [op |-> "deactivate", req |-> [id |-> i], res |-> Res(0, "")]
        /\ UNCHANGED <<nextId, roleOf, loggedOut, now, rlVars, catVars, inFlight>>

DeleteUser ==
    \E i \in Stored :
        /\ users' = [j \in Stored \ {i} |-> users[j]]
        /\ last' = [op |-> "delete-user", req |-> [id |-> i], res |-> Res(0, "")]
        /\ UNCHANGED <<nextId, roleOf, loggedOut, now, rlVars, catVars, inFlight>>

Tick ==
    /\ now < MaxTime
    /\ now' = now + 1
    /\ last' = [op |-> "tick", req |-> [id |-> 0], res |-> Res(0, "")]
    /\ UNCHANGED <<authVars, rlVars, catVars, inFlight>>

----------------------------------------------------------------------------
(* Spec: the life of one identity.  It registers itself or is registered *)
(* as an administrator, logs in with its own credentials, uses its       *)
(* sessions, is deactivated or removed, and may register again.          *)

NoLast == [op |-> "init", req |-> [id |-> 0], res |-> Res(0, "")]

EmptyDb ==
    /\ users = << >>
    /\ nextId = 1
    /\ roleOf = << >>

EmptyCatalog ==
    /\ categories = << >>
    /\ products = << >>
    /\ media = {}

Init ==
    /\ EmptyDb
    /\ loggedOut = {}
    /\ now = 0
    /\ last = NoLast
    /\ rateLimitStore = << >>
    /\ admitted = << >>
    /\ EmptyCatalog
    /\ inFlight = {}

SelfRegisters ==
    Register(RegisterInputs({"alice"}, {"a@x.io"}, {PwStrong},
                            {Missing, "admin", "moderator"}))

AdminRegisters ==
    RegisterAdmin(RegisterAdminInputs({"alice"}, {"a@x.io"}, {PwStrong},
                                      {AdminSecret, "guess"}))

OwnerLogsIn ==
    Login(LoginInputs({"a@x.io"}, {PwStrong}, {AdminSecret}))

Next ==
    \/ SelfRegisters
    \/ AdminRegisters
    \/ OwnerLogsIn
    \/ Refresh
    \/ Logout
    \/ Me
    \/ Deactivate
    \/ DeleteUser
    \/ Tick

Spec == Init /\ [][Next]_vars

----------------------------------------------------------------------------
(* SpecReg: the two registration routes with every combination of their  *)
(* inputs, over two usernames and two emails                             *)

RegisterAny ==
    Register(RegisterInputs(Usernames \cup {Missing}, Emails \cup {Missing},
                            {NoPassword, PwShort, PwUser},
                            {Missing, "admin", "moderator"}))

RegisterAdminAny ==
    RegisterAdmin(RegisterAdminInputs(Usernames \cup {Missing}, Emails \cup {Missing},
                                      {NoPassword, PwUser, PwStrong}, AdminTokenInputs))

NextReg ==
    \/ RegisterAny
    \/ RegisterAdminAny
    \/ DeleteUser

SpecReg == Init /\ [][NextReg]_vars

----------------------------------------------------------------------------
(* SpecLogin: every login request against a database that holds one     *)
(* account, alice (role user) or bob (role admin)                        *)

OneAccount(username, email, password, role) ==
    /\ users = (1 :> NewUser(username, email, password, role))
    /\ nextId = 2
    /\ roleOf = (1 :> role)

InitLogin ==
    /\ \/ OneAccount("alice", "a@x.io", PwUser, "user")
       \/ OneAccount("bob", "b@x.io", PwStrong, "admin")
    /\ loggedOut = {}
    /\ now = 0
    /\ last = NoLast
    /\ rateLimitStore = << >>
    /\ admitted = << >>
    /\ EmptyCatalog
    /\ inFlight = {}

LoginAny ==
    Login(LoginInputs(Emails \cup {Missing}, {NoPassword, PwUser, PwStrong},
                      AdminTokenInputs))

NextLogin ==
    \/ LoginAny
    \/ Tick

SpecLogin == InitLogin /\ [][NextLogin]_vars

----------------------------------------------------------------------------
(* SpecRevoke: the sessions of one account, with the history of the     *)
(* refresh tokens its logouts removed                                    *)

InitRevoke ==
    /\ OneAccount("alice", "a@x.io", PwUser, "user")
    /\ loggedOut = {}
    /\ now = 0
    /\ last = NoLast
    /\ rateLimitStore = << >>
    /\ admitted = << >>
    /\ EmptyCatalog
    /\ inFlight = {}

AliceLogsIn ==
    Login(LoginInputs({"a@x.io"}, {PwUser}, {Missing}))

NextRevoke ==
    \/ AliceLogsIn
    \/ LogoutRecorded
    \/ Refresh
    \/ Tick

SpecRevoke == InitRevoke /\ [][NextRevoke]_vars

----------------------------------------------------------------------------
(* middleware/auth.js: the rate limiter.  The middleware has no await:    *)
(* Node runs each call, and each run of the sweep, to completion.         *)

(* req.user?.id || req.ip: no route puts protect before rateLimit *)
Keys == {"ip1", "ip2"}

(* rateLimit(50, 60000) of GET /product/:id and rateLimit(5, 60 * 60 * 1000) *)
(* of POST /product/:id/whatsapp, scaled                                     *)
Limiters == {"product", "whatsapp"}

ProductMax == 3
ProductWindow == 1
WhatsappMax == 2
WhatsappWindow == 2
RLMaxTime == 4       \* the clock of SpecRL stops here

maxRequests(l) == IF l = "product" THEN ProductMax ELSE WhatsappMax
windowMs(l) == IF l = "product" THEN ProductWindow ELSE WhatsappWindow

(* mutant: the comparison lets one more request through *)
LimitReached_OffByOne(record, max) == record.count > max

(* if (record.count >= maxRequests) *)
LimitReached(record, max) == record.count >= max

rateLimit(store, t, identifier, max, window) ==
    LET fresh == [count |-> 1, resetTime |-> t + window]
    IN  IF identifier \notin DOMAIN store
        THEN [store |-> store @@ (identifier :> fresh), res |-> Res(0, "next")]
        ELSE IF t > store[identifier].resetTime
        THEN [store |-> [store EXCEPT ![identifier] = fresh], res |-> Res(0, "next")]
        ELSE IF LimitReached(store[identifier], max)
        THEN [store |-> store,
              res |-> Res(429, "Too many requests, please try again later")]
        ELSE [store |-> [store EXCEPT ![identifier].count = @ + 1],
              res |-> Res(0, "next")]

NoneAdmitted == [l \in Limiters |-> 0]

RateLimit ==
    \E l \in Limiters, k \in Keys :
        LET o == rateLimit(rateLimitStore, now, k, maxRequests(l), windowMs(l))
            opened == \/ k \notin DOMAIN rateLimitStore
                      \/ o.store[k].resetTime # rateLimitStore[k].resetTime
        IN  /\ rateLimitStore' = o.store
            /\ admitted' =
                  IF o.res.status = 429 THEN admitted
                  ELSE IF opened
                  THEN [j \in DOMAIN o.store |->
                          IF j = k THEN [NoneAdmitted EXCEPT ![l] = 1] ELSE admitted[j]]
                  ELSE [admitted EXCEPT ![k][l] = @ + 1]
            /\ last' = [op |-> "rate-limit", req |-> [limiter |-> l, key |-> k],
                        res |-> o.res]
            /\ UNCHANGED <<authVars, now, catVars, inFlight>>

(* mutant: the sweep takes a record at the instant of its resetTime *)
Expired_AtReset(record, t) == t >= record.resetTime

(* if (now > value.resetTime) *)
Expired(record, t) == t > record.resetTime

(* setInterval(() => { ... if (now > value.resetTime) rateLimitStore.delete(key) }) *)
Sweep ==
    LET keep == {k \in DOMAIN rateLimitStore : ~Expired(rateLimitStore[k], now)}
    IN  /\ rateLimitStore' = [k \in keep |-> rateLimitStore[k]]
        /\ admitted' = [k \in keep |-> admitted[k]]
        /\ last' = [op |-> "sweep", req |-> [deleted |-> DOMAIN rateLimitStore \ keep],
                    res |-> Res(0, "")]
        /\ UNCHANGED <<authVars, now, catVars, inFlight>>

TickRL ==
    /\ now < RLMaxTime
    /\ now' = now + 1
    /\ last' = [op |-> "tick", req |-> [id |-> 0], res |-> Res(0, "")]
    /\ UNCHANGED <<authVars, rlVars, catVars, inFlight>>

NextRL ==
    \/ RateLimit
    \/ Sweep
    \/ TickRL

SpecRL == Init /\ [][NextRL]_vars

----------------------------------------------------------------------------
(* routes/routes.js and routes/upload.js: the routes behind protect and   *)
(* adminOnly.  A document keeps the fields the handlers decide on; the    *)
(* images of a product are kept as the set of their public_ids.  A new    *)
(* _id and a new public_id is any identifier not in use.                  *)

CategoryIds == {"c1"}
ProductIds == {"p1", "p2"}
PublicIds == {"img1", "img2"}
CategoryNames == {"hats"}

CatalogOps ==
    {"create-category", "update-category", "delete-category", "create-product",
     "update-product", "delete-product", "upload-single", "upload-multiple"}

Catalog(cs, ps, m) == [categories |-> cs, products |-> ps, media |-> m]

CatOut(cat, res) == [cat |-> cat, res |-> res]

(* cloudinary.uploader.destroy(public_id); a failure is logged and dropped *)
deleteFromCloudinary(m, public_id) == m \ {public_id}

deleteMultipleFromCloudinary(m, publicIds) == m \ publicIds

(* the unique index on Category.name (error.code === 11000) *)
NameTaken(cs, name, self) == \E c \in DOMAIN cs : c # self /\ cs[c].name = name

createCategory(cat, id, name, public_id) ==
    IF public_id = Missing
    THEN CatOut(cat, Res(400, "imageUrl and public_id are required"))
    ELSE IF NameTaken(cat.categories, name, id)
    THEN CatOut(cat, Res(400, "Category name already exists"))
    ELSE IF name = Missing
    THEN CatOut(cat, Res(500, "Error creating category"))
    ELSE CatOut([cat EXCEPT !.categories =
                     @ @@ (id :> [name |-> name, image |-> public_id])],
                Res(201, "Category created successfully"))

updateCategory(cat, id, name, public_id) ==
    IF id \notin DOMAIN cat.categories
    THEN CatOut(cat, Res(404, "Category not found"))
    ELSE LET old == cat.categories[id]
             named == IF name # Missing THEN [old EXCEPT !.name = name] ELSE old
             m1 == IF public_id # Missing
                   THEN deleteFromCloudinary(cat.media, old.image)
                   ELSE cat.media
             new == IF public_id # Missing
                    THEN [named EXCEPT !.image = public_id]
                    ELSE named
         IN  IF NameTaken(cat.categories, new.name, id)
             THEN CatOut([cat EXCEPT !.media =
                              IF public_id # Missing
                              THEN deleteFromCloudinary(m1, public_id)
                              ELSE m1],
                         Res(500, "Error updating category"))
             ELSE CatOut([cat EXCEPT !.categories[id] = new, !.media = m1],
                         Res(200, "Category updated successfully"))

(* Product.countDocuments({ category: id }) *)
productCount(ps, id) == Cardinality({p \in DOMAIN ps : ps[p].category = id})

deleteCategory(cat, id) ==
    IF id \notin DOMAIN cat.categories
    THEN CatOut(cat, Res(404, "Category not found"))
    ELSE IF productCount(cat.products, id) > 0
    THEN CatOut(cat, Res(400, "Cannot delete category"))
    ELSE CatOut([cat EXCEPT
                    !.media = deleteFromCloudinary(@, cat.categories[id].image),
                    !.categories = [c \in DOMAIN @ \ {id} |-> @[c]]],
                Res(200, "Category deleted successfully"))

(* productSchema.pre('save'): PROD and countDocuments() + 1 *)
NextSku(ps) == Cardinality(DOMAIN ps) + 1

(* the unique index on Product.sku *)
SkuTaken(ps, sku) == \E p \in DOMAIN ps : ps[p].sku = sku

createProduct(cat, id, category, images) ==
    IF images = {}
    THEN CatOut(cat, Res(400, "At least one product image is required"))
    ELSE IF category = Missing \/ SkuTaken(cat.products, NextSku(cat.products))
    THEN CatOut([cat EXCEPT !.media = deleteMultipleFromCloudinary(@, images)],
                Res(500, "Error creating product"))
    ELSE CatOut([cat EXCEPT !.products =
                     @ @@ (id :> [category |-> category, images |-> images,
                                  sku |-> NextSku(cat.products)])],
                Res(201, "Product created successfully"))

updateProduct(cat, id, removeImages, newImages) ==
    IF id \notin DOMAIN cat.products
    THEN CatOut(cat, Res(404, "Product not found"))
    ELSE LET m1 == IF removeImages # {}
                   THEN deleteMultipleFromCloudinary(cat.media, removeImages)
                   ELSE cat.media
             images == (cat.products[id].images \ removeImages) \cup newImages
         IN  IF images = {}
             THEN CatOut([cat EXCEPT !.media = m1],
                         Res(400, "Product must have at least one image"))
             ELSE CatOut([cat EXCEPT !.products[id].images = images, !.media = m1],
                         Res(200, "Product updated successfully"))

deleteProduct(cat, id) ==
    IF id \notin DOMAIN cat.products
    THEN CatOut(cat, Res(404, "Product not found"))
    ELSE CatOut([cat EXCEPT
                    !.media = deleteMultipleFromCloudinary(@, cat.products[id].images),
                    !.products = [p \in DOMAIN @ \ {id} |-> @[p]]],
                Res(200, "Product deleted successfully"))

(* assigned: the public_ids the media host gives the files of the request *)
uploadSingle(cat, assigned) ==
    IF assigned = {}
    THEN CatOut(cat, Res(400, "No image file provided"))
    ELSE CatOut([cat EXCEPT !.media = @ \cup assigned], Res(200, "ok"))

uploadMultiple(cat, assigned) ==
    IF assigned = {}
    THEN CatOut(cat, Res(400, "No image files provided"))
    ELSE CatOut([cat EXCEPT !.media = @ \cup assigned], Res(200, "ok"))

(* router.<method>(path, protect, adminOnly, handler) *)
AdminGate(us, t, bearer) ==
    LET guard == protect(us, t, bearer)
    IN  IF guard.status # 0 THEN guard ELSE adminOnly(guard)

(* an _id of a new document *)
NewIds(Ids, used) == IF Ids \ used = {} THEN {"none"} ELSE Ids \ used

(* Outcomes: what the handler does for each request body *)
AdminRoute(op, Outcomes) ==
    /\ \E bearer \in BearerInputs :
          LET gate == AdminGate(users, now, bearer)
          IN  IF gate.status # 0
              THEN /\ last' = [op |-> op, req |-> [bearer |-> bearer], res |-> gate]
                   /\ UNCHANGED catVars
              ELSE \E o \in Outcomes :
                          /\ DOMAIN o.cat.categories \subseteq CategoryIds
                          /\ DOMAIN o.cat.products \subseteq ProductIds
                          /\ categories' = o.cat.categories
                          /\ products' = o.cat.products
                          /\ media' = o.cat.media
                          /\ last' = [op |-> op, req |-> [bearer |-> bearer],
                                      res |-> [o.res EXCEPT !.ran = TRUE,
                                                            !.reqUser = gate.reqUser]]
    /\ UNCHANGED <<authVars, now, rlVars, inFlight>>

Current == Catalog(categories, products, media)

CreateCategory ==
    AdminRoute("create-category",
               {createCategory(Current, b.id, b.name, b.public_id) :
                   b \in [id : NewIds(CategoryIds, DOMAIN categories),
                        name : CategoryNames \cup {Missing},
                        public_id : PublicIds \cup {Missing}]})

UpdateCategory ==
    AdminRoute("update-category",
               {updateCategory(Current, b.id, b.name, b.public_id) :
                   b \in [id : CategoryIds, name : CategoryNames \cup {Missing},
                        public_id : PublicIds \cup {Missing}]})

DeleteCategory ==
    AdminRoute("delete-category",
               {deleteCategory(Current, b.id) :
                   b \in [id : CategoryIds]})

CreateProduct ==
    AdminRoute("create-product",
               {createProduct(Current, b.id, b.category, b.images) :
                   b \in [id : NewIds(ProductIds, DOMAIN products),
                        category : DOMAIN categories \cup {Missing},
                        images : SUBSET PublicIds]})

UpdateProduct ==
    AdminRoute("update-product",
               {updateProduct(Current, b.id, b.removeImages, b.newImages) :
                   b \in [id : ProductIds, removeImages : SUBSET PublicIds,
                        newImages : SUBSET PublicIds]})

DeleteProduct ==
    AdminRoute("delete-product",
               {deleteProduct(Current, b.id) :
                   b \in [id : ProductIds]})

UploadSingle ==
    AdminRoute("upload-single",
               {uploadSingle(Current, b.assigned) :
                   b \in [assigned : {{}} \cup {{i} : i \in PublicIds \ media}]})

UploadMultiple ==
    AdminRoute("upload-multiple",
               {uploadMultiple(Current, b.assigned) :
                   b \in [assigned : SUBSET (PublicIds \ media)]})

(* SpecCatalog: alice is a user, bob an administrator who is active,      *)
(* deactivated or removed; access tokens signed one lifetime ago have     *)
(* expired                                                                *)
InitCatalog ==
    /\ \E bob \in {"active", "inactive", "removed"} :
          users = (1 :> NewUser("alice", "a@x.io", PwUser, "user")) @@
                  IF bob = "removed" THEN << >>
                  ELSE (2 :> [NewUser("bob", "b@x.io", PwStrong, "admin")
                                EXCEPT !.isActive = (bob = "active")])
    /\ nextId = 3
    /\ roleOf = (1 :> "user") @@ (2 :> "admin")
    /\ loggedOut = {}
    /\ now = AccessTTL
    /\ last = NoLast
    /\ rateLimitStore = << >>
    /\ admitted = << >>
    /\ EmptyCatalog
    /\ inFlight = {}

NextCatalog ==
    \/ CreateCategory
    \/ UpdateCategory
    \/ DeleteCategory
    \/ CreateProduct
    \/ UpdateProduct
    \/ DeleteProduct
    \/ UploadSingle
    \/ UploadMultiple

SpecCatalog == InitCatalog /\ [][NextCatalog]_vars

----------------------------------------------------------------------------
(* SpecPassword: one identity registers by either route with passwords at *)
(* the limits of the two validations                                      *)

RegisterPasswords ==
    Register(RegisterInputs({"alice"}, {"a@x.io"}, {PwShort, Pw7, PwUser},
                            {Missing, "moderator"}))

RegisterAdminPasswords ==
    RegisterAdmin(RegisterAdminInputs({"alice"}, {"a@x.io"},
                                      {PwUser, Pw11, PwNoLower, PwNoUpper, PwNoDigit,
                                       PwNoSymbol, PwStrong, PwForeign},
                                      {AdminSecret, "guess"}))

NextPassword ==
    \/ RegisterPasswords
    \/ RegisterAdminPasswords
    \/ DeleteUser

SpecPassword == Init /\ [][NextPassword]_vars

----------------------------------------------------------------------------
(* SpecRace: /register and /register-admin as the two steps their awaits  *)
(* make of them: the validations with User.findOne, then user.save().     *)
(* Requests of several clients are between the two steps at once.         *)

MaxInFlight == 2

(* the handler up to its save, on the collection as findOne sees it *)
RegistrationOf(us, id, req) ==
    IF req.route = "register"
    THEN register(us, id, req.username, req.email, req.password, req.role)
    ELSE registerAdmin(us, id, req.username, req.email, req.password, AdminSecret)

RaceInputs ==
    {[route |-> r, username |-> u, email |-> e,
      password |-> IF r = "register" THEN PwUser ELSE PwStrong, role |-> Missing] :
        r \in {"register", "register-admin"}, u \in Usernames, e \in {"a@x.io"}}

(* findOne found nothing: the handler goes on to await user.save() *)
RegisterFind ==
    \E req \in RaceInputs :
        LET o == RegistrationOf(users, nextId, req)
        IN  /\ IF o.res.status = 201
               THEN /\ req \notin inFlight
                    /\ Cardinality(inFlight) < MaxInFlight
                    /\ inFlight' = inFlight \cup {req}
                    /\ last' = [op |-> "register-find", req |-> req,
                                res |-> Res(0, "await")]
               ELSE /\ inFlight' = inFlight
                    /\ last' = [op |-> "register-find", req |-> req, res |-> o.res]
            /\ UNCHANGED <<authVars, now, rlVars, catVars>>

(* user.save(): the unique indexes of username and email reject a second  *)
(* document, the error reaches the catch block                            *)
RegisterSave ==
    \E req \in inFlight :
        /\ inFlight' = inFlight \ {req}
        /\ IF FindExisting(users, req.username, req.email) # {}
           THEN /\ last' = [op |-> "register-save", req |-> req,
                            res |-> Res(500, IF req.route = "register"
                                             THEN "Server error while registering"
                                             ELSE "Server error while registering admin")]
                /\ UNCHANGED <<users, nextId, roleOf>>
           ELSE LET o == RegistrationOf(users, nextId, req)
                IN  /\ nextId <= MaxUsers
                    /\ users' = o.users
                    /\ nextId' = nextId + 1
                    /\ roleOf' = roleOf @@ (nextId :> o.users[nextId].role)
                    /\ last' = [op |-> "register-save", req |-> req, res |-> o.res]
        /\ UNCHANGED <<loggedOut, now, rlVars, catVars>>

NextRace ==
    \/ RegisterFind
    \/ RegisterSave
    \/ DeleteUser

SpecRace == Init /\ [][NextRace]_vars

----------------------------------------------------------------------------
(* SpecSession: the sessions of one account that logs in with its own or  *)
(* with a wrong password, refreshes, logs out and may be deactivated      *)

AliceTriesToLogIn ==
    Login(LoginInputs({"a@x.io"}, {PwUser, PwStrong}, {Missing}))

NextSession ==
    \/ AliceTriesToLogIn
    \/ LogoutRecorded
    \/ Refresh
    \/ Deactivate
    \/ Tick

SpecSession == InitRevoke /\ [][NextSession]_vars

----------------------------------------------------------------------------
(* SpecLoginRace: /login as the steps its awaits make of it.  findOne     *)
(* loads the document; the step-up, the lock test and the password test   *)
(* read that loaded document; incrementLoginAttempts, resetLoginAttempts  *)
(* and save write to the stored one, each as one operation of the store.  *)

(* /login from the line after findOne, seen being the loaded document *)
loginAfterFind(us, t, id, seen, password, adminToken) ==
    IF AdminStepUpFails(seen, adminToken)
    THEN Out([us EXCEPT ![id] = incrementLoginAttempts(@, t)],
             Res(403, "Admin token required for admin login"))
    ELSE IF LockCheck(seen, t)
    THEN Out(us, Res(423, "Account locked due to too many failed login attempts. Try again later."))
    ELSE IF ~matchPassword(seen, password)
    THEN Out([us EXCEPT ![id] = incrementLoginAttempts(@, t)],
             [Res(401, "Invalid credentials") EXCEPT !.pwCompared = TRUE])
    ELSE Out([us EXCEPT ![id] =
                 [resetLoginAttempts(@) EXCEPT !.refreshTokens =
                     PushToken(@, generateRefreshToken(id, t))]],
             [Res(200, "ok")
                EXCEPT !.ran = TRUE, !.pwCompared = TRUE,
                       !.accessToken = generateAccessToken(id, seen.role, t),
                       !.refreshToken = generateRefreshToken(id, t),
                       !.data = [id |-> id, username |-> seen.username,
                                 email |-> seen.email, role |-> seen.role]])

(* the clients of the concurrent requests *)
Clients == {"c1", "c2"}

(* const user = await User.findOne({ email }).select('+password') *)
LoginFind ==
    \E c \in Clients, password \in {PwUser, PwStrong} :
        LET found == FindByEmail(users, "a@x.io")
        IN  /\ found # {}
            /\ \A r \in inFlight : r.client # c
            /\ Cardinality(inFlight) < MaxInFlight
            /\ LET id == CHOOSE i \in found : TRUE
               IN  /\ inFlight' = inFlight \cup
                         {[route |-> "login", client |-> c, id |-> id,
                           seen |-> users[id], password |-> password]}
                   /\ last' = [op |-> "login-find",
                               req |-> [client |-> c, id |-> id, password |-> password],
                               res |-> Res(0, "await")]
            /\ UNCHANGED <<authVars, now, rlVars, catVars>>

LoginFinish ==
    \E r \in inFlight :
        LET o == loginAfterFind(users, now, r.id, r.seen, r.password, Missing)
        IN  /\ WithinBounds(o.users)
            /\ users' = o.users
            /\ inFlight' = inFlight \ {r}
            /\ last' = [op |-> "login-finish",
                        req |-> [client |-> r.client, id |-> r.id, password |-> r.password],
                        res |-> o.res]
            /\ UNCHANGED <<nextId, roleOf, loggedOut, now, rlVars, catVars>>

NextLoginRace ==
    \/ LoginFind
    \/ LoginFinish
    \/ Tick

SpecLoginRace == InitRevoke /\ [][NextLoginRace]_vars

----------------------------------------------------------------------------
(* SpecTwoSessions: two accounts log in and log out, each request with    *)
(* any access token and any refresh token the server has signed           *)

InitTwoSessions ==
    /\ users = (1 :> NewUser("alice", "a@x.io", PwUser, "user")) @@
               (2 :> NewUser("bob", "b@x.io", PwUser, "user"))
    /\ nextId = 3
    /\ roleOf = (1 :> "user") @@ (2 :> "user")
    /\ loggedOut = {}
    /\ now = 0
    /\ last = NoLast
    /\ rateLimitStore = << >>
    /\ admitted = << >>
    /\ EmptyCatalog
    /\ inFlight = {}

BothLogIn ==
    Login(LoginInputs(Emails, {PwUser}, {Missing}))

NextTwoSessions ==
    \/ BothLogIn
    \/ Logout
    \/ Tick

SpecTwoSessions == InitTwoSessions /\ [][NextTwoSessions]_vars

----------------------------------------------------------------------------
(* SpecCategoryRace: DELETE /category/:id as the two steps its awaits     *)
(* make of it, interleaved with the other catalog requests                *)

(* Category.findById and Product.countDocuments: the handler answers 404  *)
(* or 400, or goes on to await the two deletions                          *)
DeleteCategoryCount ==
    /\ \E bearer \in BearerInputs :
          LET gate == AdminGate(users, now, bearer)
          IN  IF gate.status # 0
              THEN /\ last' = [op |-> "delete-category-count",
                               req |-> [bearer |-> bearer], res |-> gate]
                   /\ inFlight' = inFlight
              ELSE \E id \in CategoryIds :
                      LET o == deleteCategory(Current, id)
                          r == [route |-> "delete-category", id |-> id,
                                image |-> categories[id].image]
                      IN  IF o.res.status = 200
                          THEN /\ r \notin inFlight
                               /\ Cardinality(inFlight) < MaxInFlight
                               /\ inFlight' = inFlight \cup {r}
                               /\ last' = [op |-> "delete-category-count",
                                           req |-> [bearer |-> bearer],
                                           res |-> [Res(0, "await") EXCEPT
                                                      !.ran = TRUE,
                                                      !.reqUser = gate.reqUser]]
                          ELSE /\ inFlight' = inFlight
                               /\ last' = [op |-> "delete-category-count",
                                           req |-> [bearer |-> bearer],
                                           res |-> [o.res EXCEPT
                                                      !.ran = TRUE,
                                                      !.reqUser = gate.reqUser]]
    /\ UNCHANGED <<authVars, now, rlVars, catVars>>

(* deleteFromCloudinary(category.image.public_id) and                     *)
(* Category.findByIdAndDelete(id), with no second look at the products    *)
DeleteCategoryFinish ==
    \E r \in inFlight :
        /\ r.route = "delete-category"
        /\ inFlight' = inFlight \ {r}
        /\ media' = deleteFromCloudinary(media, r.image)
        /\ categories' = [c \in DOMAIN categories \ {r.id} |-> categories[c]]
        /\ last' = [op |-> "delete-category-finish", req |-> [id |-> r.id],
                    res |-> [Res(200, "Category deleted successfully")
                               EXCEPT !.ran = TRUE]]
        /\ UNCHANGED <<authVars, now, rlVars, products>>

NextCategoryRace ==
    \/ CreateCategory
    \/ CreateProduct
    \/ DeleteProduct
    \/ DeleteCategoryCount
    \/ DeleteCategoryFinish

SpecCategoryRace == InitCatalog /\ [][NextCategoryRace]_vars

----------------------------------------------------------------------------
(* The properties *)

NoTokens(res) == res.accessToken = NoToken /\ res.refreshToken = NoToken

(* the step is a login request that supplies email and password and names *)
(* the email of stored account i                                          *)
LoginStepOn(i) ==
    /\ last'.op = "login"
    /\ last'.req.email # Missing
    /\ last'.req.password # NoPassword
    /\ i \in Stored
    /\ users[i].email = last'.req.email

(* C1 as stated: once the lock is set, every login attempt on the account *)
(* is answered 423 and issues no tokens until lock-until has passed.      *)
C1_Original ==
    [][\A i \in Stored :
          LoginStepOn(i) /\ users[i].lockUntil > now
            => last'.res.status = 423 /\ NoTokens(last'.res)]_vars

(* C1 amended: a failed password check adds one to the counter and sets   *)
(* the lock once the counter reaches the threshold; while lock-until is   *)
(* in the future a login attempt that gets past the admin step-up is      *)
(* answered 423, issues no tokens and changes nothing, also with the      *)
(* correct password; an attempt on a locked admin account without the     *)
(* configured admin secret is answered 403 and issues no tokens.          *)
C1_LockedUntilExpiry ==
    [][\A i \in Stored :
          /\ LoginStepOn(i) /\ users[i].lockUntil > now
                => IF users[i].role = "admin" /\ last'.req.adminToken # AdminSecret
                   THEN last'.res.status = 403 /\ NoTokens(last'.res)
                   ELSE /\ last'.res.status = 423
                        /\ NoTokens(last'.res)
                        /\ users' = users
          /\ LoginStepOn(i) /\ last'.res.status = 401
                => /\ last'.res.pwCompared
                   /\ users[i].password # Hash(last'.req.password)
                   /\ users'[i].loginAttempts = users[i].loginAttempts + 1
                   /\ users'[i].loginAttempts >= LockThreshold
                        => users'[i].lockUntil > now]_vars

(* C1 witness: a locked account was asked to log in with its own password *)
(* and answered 423                                                       *)
C1_Witness ==
    /\ last.op = "login"
    /\ last.res.status = 423
    /\ \E i \in Stored : /\ users[i].email = last.req.email
                          /\ users[i].password = Hash(last.req.password)
                          /\ users[i].loginAttempts >= LockThreshold
                          /\ users[i].lockUntil > now

(* C2: a login request (email and password supplied) for an admin account *)
(* without the configured admin secret is answered 403 "Admin token       *)
(* required", issues no tokens, adds exactly one to the account's failed  *)
(* login counter and never compares the password.                         *)
C2_AdminStepUp ==
    [][\A i \in Stored :
          LoginStepOn(i) /\ users[i].role = "admin" /\ last'.req.adminToken # AdminSecret
            => /\ last'.res.status = 403
               /\ last'.res.message = "Admin token required for admin login"
               /\ NoTokens(last'.res)
               /\ ~last'.res.pwCompared
               /\ users'[i].loginAttempts = users[i].loginAttempts + 1
               /\ users'[i].refreshTokens = users[i].refreshTokens]_vars

(* C2 witness: the admin's own password without an admin token: 403 and a *)
(* counted failure                                                        *)
C2_Witness ==
    /\ last.op = "login"
    /\ last.res.status = 403
    /\ last.req.adminToken = Missing
    /\ \E i \in Stored : /\ users[i].email = last.req.email
                          /\ users[i].role = "admin"
                          /\ users[i].password = Hash(last.req.password)
                          /\ users[i].loginAttempts >= 1

(* C3: /refresh issues an access token exactly when the token is signed   *)
(* with the refresh secret, is unexpired, names a stored active user and  *)
(* is an entry of that user's refreshTokens; the token it issues is the   *)
(* access token of that user.                                             *)
C3_RefreshIff ==
    last.op = "refresh" =>
        LET tok == last.req.refreshToken
            valid == /\ tok.sig = "JWT_REFRESH_SECRET"
                     /\ now < tok.exp
                     /\ tok.id \in Stored
                     /\ users[tok.id].isActive
                     /\ \E k \in 1..Len(users[tok.id].refreshTokens) :
                            users[tok.id].refreshTokens[k] = tok
        IN  /\ (last.res.accessToken # NoToken) <=> valid
            /\ last.res.refreshToken = NoToken
            /\ valid => /\ last.res.status = 200
                        /\ last.res.accessToken =
                              [sig |-> "JWT_SECRET", id |-> tok.id,
                               role |-> users[tok.id].role, iat |-> now,
                               exp |-> now + AccessTTL]

(* C3 witness: a refresh that succeeded *)
C3_Witness ==
    /\ last.op = "refresh"
    /\ last.res.status = 200
    /\ last.res.accessToken # NoToken

(* C4 as stated: a refresh token that a logout removed from its owner's   *)
(* list never again yields an access token: every later /refresh with it  *)
(* is answered 401.                                                       *)
C4_Original ==
    last.op = "refresh" /\ last.req.refreshToken \in loggedOut
        => last.res.status = 401 /\ last.res.accessToken = NoToken

C6_AdminRoleRejected ==
    [][last'.op = "register" /\ last'.req.role = "admin"
         => /\ last'.res.status = 403
            /\ users' = users]_vars

(* C6 witness: a request that is valid but for its role: fresh username   *)
(* and email, password of 8 characters, answered 403                      *)
C6_Witness ==
    /\ last.op = "register"
    /\ last.req.role = "admin"
    /\ last.res.status = 403
    /\ Len(last.req.password) >= 8
    /\ last.req.username # Missing /\ last.req.email # Missing
    /\ \A i \in Stored : /\ users[i].username # last.req.username
                          /\ users[i].email # last.req.email

(* C9: protect answers a token that is signed with the access secret and  *)
(* expired with 401 and code TOKEN_EXPIRED, and a missing, malformed or   *)
(* wrongly signed token, or one whose user is absent or inactive, with    *)
(* 401 and no code; in both cases the route's handler does not run and no *)
(* identity is attached.                                                  *)
C9_Guard ==
    last.op \in {"me", "logout"} =>
        LET tok == last.req.bearer
            signed == tok.sig = "JWT_SECRET"
            expired == now >= tok.exp
            gone == tok.id \notin Stored \/ ~users[tok.id].isActive
            stopped == /\ last.res.status = 401
                       /\ ~last.res.ran
                       /\ last.res.reqUser = NoUser
        IN  /\ signed /\ expired => stopped /\ last.res.code = "TOKEN_EXPIRED"
            /\ ~signed \/ (~expired /\ gone) => stopped /\ last.res.code = ""
            /\ signed /\ ~expired /\ ~gone => last.res.ran

(* C9 witness: an expired access token of a stored active user *)
C9_Witness ==
    /\ last.op = "me"
    /\ last.res.code = "TOKEN_EXPIRED"
    /\ last.req.bearer.id \in Stored
    /\ users[last.req.bearer.id].isActive

(* C7: for each key and each limiter, at most max requests are admitted   *)
(* in one window of the key's record; once the limiter has admitted max   *)
(* requests in the window every further request in it is answered 429;    *)
(* the first request after the window has elapsed is admitted and leaves  *)
(* the record at count 1 with a fresh window.  (Calls of the middleware   *)
(* run one at a time, in any order.)                                      *)
C7_WindowLimit ==
    [][/\ \A k \in DOMAIN rateLimitStore', l \in Limiters :
             admitted'[k][l] <= maxRequests(l)
       /\ last'.op = "rate-limit" =>
             LET k == last'.req.key
                 l == last'.req.limiter
                 open == k \in DOMAIN rateLimitStore /\ now <= rateLimitStore[k].resetTime
                 elapsed == k \in DOMAIN rateLimitStore /\ now > rateLimitStore[k].resetTime
             IN  /\ open /\ admitted[k][l] >= maxRequests(l) => last'.res.status = 429
                 /\ elapsed => /\ last'.res.status = 0
                               /\ rateLimitStore'[k] =
                                     [count |-> 1, resetTime |-> now + windowMs(l)]
                               /\ admitted'[k][l] = 1]_vars

(* C7 witness: a limiter that admitted its max in the window denied the   *)
(* next request                                                           *)
C7_Witness ==
    /\ last.op = "rate-limit"
    /\ last.res.status = 429
    /\ admitted[last.req.key][last.req.limiter] = maxRequests(last.req.limiter)
    /\ now <= rateLimitStore[last.req.key].resetTime

(* C8 as stated: the count of a record never exceeds the configured       *)
(* maximum of any limiter, and a denied request leaves the record as it   *)
(* was.                                                                   *)
C8_Original ==
    [][/\ \A k \in DOMAIN rateLimitStore', l \in Limiters :
             rateLimitStore'[k].count <= maxRequests(l)
       /\ last'.op = "rate-limit" /\ last'.res.status = 429
             => rateLimitStore' = rateLimitStore]_vars

(* C10: the handler of an admin-gated route (category and product create, *)
(* update, delete; single and multiple upload) runs only for a bearer     *)
(* token signed with the access secret, unexpired, naming a stored active *)
(* user and carrying role admin; every other request leaves the catalog   *)
(* and the media as they were, and a valid token with another role is     *)
(* answered 403 and changes nothing.                                      *)
C10_AdminGated ==
    [][last'.op \in CatalogOps =>
          LET tok == last'.req.bearer
              valid == /\ tok.sig = "JWT_SECRET"
                       /\ now < tok.exp
                       /\ tok.id \in Stored
                       /\ users[tok.id].isActive
          IN  /\ last'.res.ran => valid /\ tok.role = "admin"
              /\ ~(valid /\ tok.role = "admin") => UNCHANGED catVars
              /\ valid /\ tok.role # "admin" =>
                    /\ last'.res.status = 403
                    /\ ~last'.res.ran
                    /\ UNCHANGED <<authVars, catVars, rlVars>>]_vars

(* C10 witness: with a category and a product created by an               *)
(* administrator in store, the valid token of a user was answered 403     *)
C10_Witness ==
    /\ categories # << >>
    /\ products # << >>
    /\ last.op \in CatalogOps
    /\ last.res.status = 403
    /\ last.req.bearer.sig = "JWT_SECRET"
    /\ now < last.req.bearer.exp
    /\ last.req.bearer.role = "user"
    /\ last.req.bearer.id \in Stored
    /\ users[last.req.bearer.id].isActive

(* C11 as stated: a login request with the email of a stored account (of  *)
(* any role, in any lock state) and a password that does not match it is  *)
(* answered as the same request with an email of no account is: same      *)
(* status, same message (401 "Invalid credentials").                      *)
C11_Original ==
    [][\A i \in Stored :
          LoginStepOn(i) /\ ~matchPassword(users[i], last'.req.password)
            => LET unknown == login(users, now, "nobody@x.io", last'.req.password,
                                    last'.req.adminToken).res
               IN  /\ unknown.status = 401
                   /\ last'.res.status = unknown.status
                   /\ last'.res.message = unknown.message]_vars

(* C12: a successful login leaves the account with loginAttempts 0 and no *)
(* lock, appends the returned refresh token to the account's list and     *)
(* keeps the earlier entries, and returns the access token of the         *)
(* account, that refresh token and the fields id, username, email and     *)
(* role, the password hash not among them.                                *)
C12_LoginSuccess ==
    [][\A i \in Stored :
          LoginStepOn(i) /\ last'.res.status = 200
            => /\ users'[i].loginAttempts = 0
               /\ users'[i].lockUntil = 0
               /\ last'.res.refreshToken = generateRefreshToken(i, now)
               /\ users'[i].refreshTokens =
                     Append(users[i].refreshTokens, last'.res.refreshToken)
               /\ last'.res.accessToken = generateAccessToken(i, users[i].role, now)
               /\ DOMAIN last'.res.data = {"id", "username", "email", "role"}
               /\ last'.res.data = [id |-> i, username |-> users[i].username,
                                    email |-> users[i].email, role |-> users[i].role]
               /\ "password" \notin DOMAIN last'.res
               /\ "password" \notin DOMAIN last'.res.data]_vars

(* C12 witness: a login succeeded and added a second session to the      *)
(* account's list                                                         *)
C12_Witness ==
    /\ last.op = "login"
    /\ last.res.status = 200
    /\ \E i \in Stored :
          /\ users[i].email = last.req.email
          /\ Len(users[i].refreshTokens) = 2
          /\ users[i].refreshTokens[2] = last.res.refreshToken
          /\ users[i].loginAttempts = 0

(* C13 as stated: whatever the role, a login attempt on an account whose  *)
(* lockUntil is in the future is answered 423 and leaves loginAttempts    *)
(* and lockUntil as they were.                                            *)
C13_Original ==
    [][\A i \in Stored :
          LoginStepOn(i) /\ users[i].lockUntil > now
            => /\ last'.res.status = 423
               /\ users'[i].loginAttempts = users[i].loginAttempts
               /\ users'[i].lockUntil = users[i].lockUntil]_vars

(* C13 amended: on an account whose lockUntil is in the future, a login   *)
(* attempt with email and password that passes the admin step-up (any     *)
(* attempt on a user account, one with the admin secret on an admin       *)
(* account) is answered 423 and leaves the whole document as it was; an   *)
(* attempt on a locked admin account without the admin secret is answered *)
(* 403 and counted as a failure.                                          *)
C13_LockFrame ==
    [][\A i \in Stored :
          LoginStepOn(i) /\ users[i].lockUntil > now
            => IF users[i].role # "admin" \/ last'.req.adminToken = AdminSecret
               THEN /\ last'.res.status = 423
                    /\ last'.res.message =
                         "Account locked due to too many failed login attempts. Try again later."
                    /\ users'[i] = users[i]
               ELSE /\ last'.res.status = 403
                    /\ users'[i].loginAttempts = users[i].loginAttempts + 1
                    /\ users'[i].lockUntil >= users[i].lockUntil]_vars

(* C13 witness: a locked admin account, asked with the admin secret and a *)
(* wrong password, answered 423 with its counter where it was             *)
C13_Witness ==
    /\ last.op = "login"
    /\ last.res.status = 423
    /\ last.req.adminToken = AdminSecret
    /\ \E i \in Stored : /\ users[i].email = last.req.email
                          /\ users[i].role = "admin"
                          /\ users[i].password # Hash(last.req.password)
                          /\ users[i].lockUntil > now

(* the four classes the admin password has to draw on *)
HasFourClasses(p) ==
    /\ HasChar(p, LowerChars)
    /\ HasChar(p, UpperChars)
    /\ HasChar(p, DigitChars)
    /\ HasChar(p, SymbolChars)

(* C14: /register without role admin and with a password of fewer than 8  *)
(* characters, and /register-admin with the admin secret and a password   *)
(* of fewer than 12 characters or without a lowercase letter, an          *)
(* uppercase letter, a digit or one of @$!%*?&, are answered 400 and      *)
(* store no user.                                                         *)
C14_WeakPassword ==
    [][/\ last'.op = "register" /\ last'.req.role # "admin"
            /\ Len(last'.req.password) < 8
          => last'.res.status = 400 /\ users' = users
       /\ last'.op = "register-admin" /\ last'.req.adminToken = AdminSecret
            /\ (Len(last'.req.password) < 12 \/ ~HasFourClasses(last'.req.password))
          => last'.res.status = 400 /\ users' = users]_vars

(* C14 witness: a password of 7 characters was refused by /register while *)
(* no user is stored                                                      *)
C14_Witness ==
    /\ last.op = "register"
    /\ last.req.role # "admin"
    /\ Len(last.req.password) = 7
    /\ last.res.status = 400
    /\ users = << >>

(* C15 as stated: /register-admin with the admin secret, a username and   *)
(* an email not in use and a password of at least 12 characters with a    *)
(* lowercase letter, an uppercase letter, a digit and one of @$!%*?& is   *)
(* answered 201 and stores a new user with role admin.                    *)
C15_Original ==
    [][/\ last'.op = "register-admin"
       /\ last'.req.adminToken = AdminSecret
       /\ last'.req.username # Missing /\ last'.req.email # Missing
       /\ FindExisting(users, last'.req.username, last'.req.email) = {}
       /\ Len(last'.req.password) >= 12
       /\ HasFourClasses(last'.req.password)
       => /\ last'.res.status = 201
          /\ \E i \in DOMAIN users' \ DOMAIN users :
                /\ users'[i].role = "admin"
                /\ users'[i].email = last'.req.email]_vars

(* C16 as stated: under any interleaving of the two registration routes,  *)
(* a request whose username or email is that of a stored user (stored     *)
(* before it, or by a concurrent request that succeeded) is answered 400  *)
(* and stores nothing, and no two stored users share a username or an     *)
(* email.                                                                 *)
C16_Original ==
    [][/\ last'.op \in {"register-find", "register-save"}
            /\ last'.res.status # 0
            /\ FindExisting(users, last'.req.username, last'.req.email) # {}
          => last'.res.status = 400 /\ users' = users
       /\ \A i, j \in DOMAIN users' :
             i # j => /\ users'[i].username # users'[j].username
                      /\ users'[i].email # users'[j].email]_vars

(* C17: a /refresh request, answered 200 or not, leaves every user        *)
(* document as it was (refreshTokens, loginAttempts and lockUntil         *)
(* included) and returns no refresh token.                                *)
C17_RefreshFrame ==
    [][last'.op = "refresh"
         => /\ users' = users
            /\ last'.res.refreshToken = NoToken]_vars

(* C17 witness: a refresh succeeded for an account with a counted failed  *)
(* login, and the presented token is still in the list                    *)
C17_Witness ==
    /\ last.op = "refresh"
    /\ last.res.status = 200
    /\ LET tok == last.req.refreshToken
       IN  /\ tok.id \in Stored
           /\ users[tok.id].loginAttempts >= 1
           /\ \E k \in 1..Len(users[tok.id].refreshTokens) :
                 users[tok.id].refreshTokens[k] = tok

(* C18: a /logout of an authenticated caller is answered 200; with no     *)
(* refresh token, or with one that is not in the caller's list (never     *)
(* there, or removed by an earlier logout), it leaves every document as   *)
(* it was; and the same logout once more changes nothing.                 *)
C18_LogoutIdempotent ==
    [][last'.op = "logout" /\ last'.res.ran
         => LET id == last'.req.bearer.id
                tok == last'.req.refreshToken
                listed == \E k \in 1..Len(users[id].refreshTokens) :
                             users[id].refreshTokens[k] = tok
            IN  /\ last'.res.status = 200
                /\ tok = NoToken \/ ~listed => users' = users
                /\ \A k \in 1..Len(users'[id].refreshTokens) :
                      users'[id].refreshTokens[k] # tok
                /\ logout(users', now, last'.req.bearer, tok).users = users'
                /\ logout(users', now, last'.req.bearer, tok).res.status = 200]_vars

(* C18 witness: a logout with a refresh token of the caller that no       *)
(* logout ever removed and that is not in the list was answered 200,      *)
(* another session still in the list                                      *)
C18_Witness ==
    /\ last.op = "logout"
    /\ last.res.ran
    /\ last.res.status = 200
    /\ LET id == last.req.bearer.id
           tok == last.req.refreshToken
       IN  /\ tok.sig = "JWT_REFRESH_SECRET"
           /\ tok.id = id
           /\ tok \notin loggedOut
           /\ Len(users[id].refreshTokens) >= 1
           /\ \A k \in 1..Len(users[id].refreshTokens) :
                 users[id].refreshTokens[k] # tok

(* C19 as stated: a /refresh that does not succeed is answered 401,       *)
(* whatever the reason.                                                   *)
C19_Original ==
    last.op = "refresh" /\ last.res.status # 200 => last.res.status = 401

(* C20: a run of the sweep deletes only records whose resetTime has       *)
(* passed and leaves every other record as it was; and for every key,     *)
(* every limiter and every later instant, the next request gets the same  *)
(* answer and leaves the same record as it would had the sweep not run (a *)
(* request on a deleted key is admitted with a fresh record of count 1).  *)
C20_SweepUnobservable ==
    [][last'.op = "sweep"
         => /\ DOMAIN rateLimitStore' \subseteq DOMAIN rateLimitStore
            /\ \A k \in DOMAIN rateLimitStore :
                  IF now > rateLimitStore[k].resetTime
                  THEN k \notin DOMAIN rateLimitStore'
                  ELSE /\ k \in DOMAIN rateLimitStore'
                       /\ rateLimitStore'[k] = rateLimitStore[k]
            /\ \A k \in Keys, l \in Limiters, t \in now..(RLMaxTime + 1) :
                  LET swept == rateLimit(rateLimitStore', t, k, maxRequests(l), windowMs(l))
                      unswept == rateLimit(rateLimitStore, t, k, maxRequests(l), windowMs(l))
                  IN  /\ swept.res = unswept.res
                      /\ swept.store[k] = unswept.store[k]
                      /\ k \in DOMAIN rateLimitStore \ DOMAIN rateLimitStore'
                            => /\ swept.res.status = 0
                               /\ swept.store[k] =
                                     [count |-> 1, resetTime |-> t + windowMs(l)]]_vars

(* C20 witness: a sweep deleted an expired record and kept one whose      *)
(* window is open and whose limit is reached                              *)
C20_Witness ==
    /\ last.op = "sweep"
    /\ last.req.deleted # {}
    /\ \E k \in DOMAIN rateLimitStore :
          /\ now <= rateLimitStore[k].resetTime
          /\ rateLimitStore[k].count >= WhatsappMax

(* C21 as stated: under any interleaving of login attempts on one         *)
(* account, a failed attempt adds one to the stored counter, and no       *)
(* attempt is answered 200 or clears the lock while the stored lockUntil  *)
(* is in the future.                                                      *)
C21_Original ==
    [][last'.op = "login-finish"
         => LET i == last'.req.id
            IN  /\ last'.res.status \in {401, 403}
                      => users'[i].loginAttempts = users[i].loginAttempts + 1
                /\ users[i].lockUntil > now
                      => /\ last'.res.status # 200
                         /\ users'[i].lockUntil >= users[i].lockUntil]_vars

(* C22: a /logout changes nothing but the refreshTokens of the user the   *)
(* caller's access token names, and takes from that list exactly the      *)
(* entries equal to the supplied refresh token; every other document,     *)
(* the one of the user a foreign refresh token names included, stays as   *)
(* it was.                                                                *)
C22_LogoutFrame ==
    [][last'.op = "logout"
         => /\ DOMAIN users' = DOMAIN users
            /\ \A i \in DOMAIN users :
                  IF last'.res.ran /\ i = last'.req.bearer.id
                  THEN users'[i] =
                         [users[i] EXCEPT !.refreshTokens =
                            SelectSeq(@, LAMBDA e : e # last'.req.refreshToken)]
                  ELSE users'[i] = users[i]]_vars

(* C22 witness: a caller with sessions of its own logged out with a       *)
(* refresh token of the other user, which is still in that user's list    *)
C22_Witness ==
    /\ last.op = "logout"
    /\ last.res.ran
    /\ LET tok == last.req.refreshToken
           id == last.req.bearer.id
       IN  /\ tok.sig = "JWT_REFRESH_SECRET"
           /\ tok.id # id
           /\ tok.id \in Stored
           /\ \E k \in 1..Len(users[tok.id].refreshTokens) :
                 users[tok.id].refreshTokens[k] = tok
           /\ Len(users[id].refreshTokens) >= 1

(* C23 as stated: for one key, a limiter denies a request only when it    *)
(* has itself admitted its max in the window, and the first request a     *)
(* limiter counts for the key is held to that limiter's own window,       *)
(* whatever the other limiter has counted for the key.                    *)
C23_Original ==
    [][last'.op = "rate-limit"
         => LET l == last'.req.limiter
                k == last'.req.key
                own == IF k \in DOMAIN admitted THEN admitted[k][l] ELSE 0
            IN  /\ last'.res.status = 429 => own >= maxRequests(l)
                /\ last'.res.status = 0 /\ own = 0
                      => rateLimitStore'[k].resetTime = now + windowMs(l)]_vars

(* C24 as stated: a /login or /refresh that names a stored user whose     *)
(* isActive is false is not answered 200 and leaves that user's           *)
(* refreshTokens as they were.                                            *)
C24_Original ==
    [][\A i \in Stored :
          /\ ~users[i].isActive
          /\ \/ last'.op = "login" /\ last'.req.email = users[i].email
             \/ last'.op = "refresh" /\ last'.req.refreshToken.id = i
          => /\ last'.res.status # 200
             /\ users'[i].refreshTokens = users[i].refreshTokens]_vars

(* C25 as stated: whatever the catalog holds, a product update that is    *)
(* answered with a failure status leaves the products as they were and    *)
(* leaves on the media host every image of the product that was there.    *)
C25_Original ==
    \A id \in DOMAIN products, removeImages \in SUBSET PublicIds,
       newImages \in SUBSET PublicIds :
          LET o == updateProduct(Current, id, removeImages, newImages)
          IN  o.res.status >= 400
                 => /\ o.cat.products = products
                    /\ (products[id].images \cap media) \subseteq o.cat.media

(* C26 as stated: whatever creations and deletions came before, a product *)
(* creation with at least one image and a stored category is answered 201 *)
(* and stores the product under a SKU no other stored product has.        *)
C26_Original ==
    \A id \in NewIds(ProductIds, DOMAIN products), category \in DOMAIN categories,
       images \in SUBSET PublicIds \ {{}} :
          LET o == createProduct(Current, id, category, images)
          IN  /\ o.res.status = 201
              /\ id \in DOMAIN o.cat.products
              /\ \A p \in DOMAIN products : products[p].sku # o.cat.products[id].sku

(* C27 as stated: under any interleaving of a category deletion with      *)
(* product creations, no step removes a category that a stored product    *)
(* belongs to.                                                            *)
C27_Original ==
    [][\A c \in DOMAIN categories \ DOMAIN categories' :
          productCount(products, c) = 0]_vars

====
